---- MODULE Spec2Model ----
(***************************************************************************)
(* Role-assignment reconciliation of the PMS admin backend.                *)
(*                                                                         *)
(*   AdminController  pms-backend/src/modules/admin/admin.controller.ts    *)
(*   AdminService     admin.service.ts (src/unnamed/part_003, lines 17-236) *)
(*                                                                         *)
(* The persisted state is the ProjectMember table.  Every handler is a     *)
(* short request against it.  A request runs without interruption between  *)
(* two awaits, so the model takes one step per awaited storage call:       *)
(* getProjectRoles, assign and removeAssignment are one step each, and     *)
(* setProjectRoles is one step for its listAssignments read and one step   *)
(* for every removeAssignment / assign it awaits afterwards.  (assign       *)
(* awaits its two lookups before its create; no handler deletes a Project  *)
(* or a User, so the lookups answer the same at the create.)               *)
(* Every request passes the guards of the controller class before its      *)
(* handler runs; the guards' own code lives in common/guards.              *)
(*                                                                         *)
(* The browser side is the router (pms-frontend/src/routes/App.tsx) and    *)
(* the Login view (views/Login.tsx, src/unnamed/part_002): one step per    *)
(* event handler, and one step for what a handler does after its await.    *)
(*                                                                         *)
(* Strings are TLA+ strings (sequences of characters for TLC), so          *)
(* String.prototype.trim is computed, not assumed.  null/undefined is the  *)
(* reserved string NULL, which no input of the model uses as text.         *)
(***************************************************************************)
EXTENDS Integers, Sequences, FiniteSets, TLC

VARIABLES
    store,      \* rows of the ProjectMember table
    nextId,     \* number the next created row gets (its id and its createdAt)
    calls,      \* setProjectRoles requests in flight, by session
    resp,       \* the last completed request: what was asked, what came back
    caller      \* who sent the request that was received last

\* the browser of one user
VARIABLES
    view,           \* state of the Login view (its useState cells)
    pending,        \* requests of Login views that have no reply yet
    localStorage,   \* the keys 'token' and 'user' of window.localStorage
    location,       \* path the router is at, redirects followed
    last            \* the last thing that happened in the browser

backend == <<store, nextId, calls, resp, caller>>
frontend == <<view, pending, localStorage, location, last>>
vars == <<store, nextId, calls, resp, caller, view, pending, localStorage, location, last>>

-----------------------------------------------------------------------------
(* Bounds of the model *)

\* rows ever created in one behaviour
MaxRows == 3

\* setProjectRoles requests that may overlap in the concurrent specification
MaxCalls == 2

-----------------------------------------------------------------------------
(* Values *)

NULL == "<null>"

\* admin.controller.ts: ROLE_CATALOG
ROLE_CATALOG ==
    << "Admin", "Customer", "PMC", "Architect", "Designer", "Contractor",
       "Legal/Liasoning", "Ava-PMT", "Engineer (Contractor)", "DC (Contractor)",
       "DC (PMC)", "Inspector (PMC)", "HOD (PMC)" >>

CatalogRoles == { ROLE_CATALOG[i] : i \in 1..Len(ROLE_CATALOG) }

\* rows of the Project and User tables (created elsewhere, never deleted)
\* const ROLES of the single-pick assignment page (AdminAssignRoles)
ROLES ==
    << "Customer", "PMC", "Architect", "Designer", "Contractor", "Legal/Liaisoning",
       "Ava-PMT", "DC (Contractor)", "DC (PMC)", "Inspector (PMC)", "HOD (PMC)",
       "Engineer (Contractor)" >>

DbProjects == { "p1", "p2" }
DbUsers == { "u1", "u2" }

\* JavaScript truthiness of a string-or-null value
Truthy(v) == v # NULL /\ v # ""

\* v ?? null
OrNull(v) == v

RECURSIVE TrimStart(_)
TrimStart(s) ==
    IF Len(s) > 0 /\ SubSeq(s, 1, 1) = " "
    THEN TrimStart(SubSeq(s, 2, Len(s)))
    ELSE s

RECURSIVE TrimEnd(_)
TrimEnd(s) ==
    IF Len(s) > 0 /\ SubSeq(s, Len(s), Len(s)) = " "
    THEN TrimEnd(SubSeq(s, 1, Len(s) - 1))
    ELSE s

\* String.prototype.trim
Trim(s) == TrimEnd(TrimStart(s))

\* AdminService.normStr: (v ?? '').trim()
normStr(v) == Trim(IF v = NULL THEN "" ELSE v)

\* the id Prisma gives the n-th created row
RowId(n) == "m" \o ToString(n)

\* f with key k set to v (an object or Map assignment)
Put(f, k, v) == [ x \in (DOMAIN f) \cup {k} |-> IF x = k THEN v ELSE f[x] ]

EmptyMap == [ x \in {} |-> NULL ]

-----------------------------------------------------------------------------
(* Prisma calls on the ProjectMember table *)

\* prisma.projectMember.create({ data: { projectId, userId, role } })
projectMemberCreate(st, n, projectId, userId, role) ==
    st \cup { [ id |-> RowId(n), projectId |-> projectId, userId |-> userId,
                role |-> role, createdAt |-> n ] }

RECURSIVE OrderByCreatedAtDesc(_)
OrderByCreatedAtDesc(rows) ==
    IF rows = {} THEN << >>
    ELSE LET newest == CHOOSE r \in rows : \A q \in rows : q.createdAt <= r.createdAt
         IN  << newest >> \o OrderByCreatedAtDesc(rows \ { newest })

\* a findMany without the where clause
projectMemberFindMany_AllProjects(st, pid) ==
    OrderByCreatedAtDesc(st)

\* prisma.projectMember.findMany({ where: { projectId }, orderBy: { createdAt: 'desc' } })
projectMemberFindMany(st, pid) ==
    OrderByCreatedAtDesc({ r \in st : r.projectId = pid })

\* a delete that takes every row of the slot of the row with the id along
projectMemberDelete_WholeSlot(st, id) ==
    IF \E r \in st : r.id = id
    THEN LET row == CHOOSE r \in st : r.id = id
         IN  [ status |-> "ok",
               store |-> { r \in st : ~ (r.projectId = row.projectId /\ r.role = row.role) } ]
    ELSE [ status |-> "RecordNotFound", store |-> st ]

\* a delete that quietly does nothing when no row has the id (deleteMany)
projectMemberDelete_IfExists(st, id) ==
    [ status |-> "ok", store |-> { r \in st : r.id # id } ]

\* prisma.projectMember.delete({ where: { id } }): rejects when no row has the id
projectMemberDelete(st, id) ==
    IF \E r \in st : r.id = id
    THEN [ status |-> "ok", store |-> { r \in st : r.id # id } ]
    ELSE [ status |-> "RecordNotFound", store |-> st ]

-----------------------------------------------------------------------------
(* AdminService *)

\* assign without the lookup of the user: the row is created for any userId
assign_NoUserLookup(st, n, dto) ==
    LET projectId == normStr(dto.projectId)
        userId == normStr(dto.userId)
        role == normStr(dto.role)
        unchanged == [ store |-> st, nextId |-> n ]
    IN  IF projectId = "" \/ userId = "" \/ role = ""
        THEN [ status |-> "BadRequest: projectId, userId, role required" ] @@ unchanged
        ELSE IF projectId \notin DbProjects
        THEN [ status |-> "BadRequest: Invalid projectId" ] @@ unchanged
        ELSE [ status |-> "ok",
               store |-> projectMemberCreate(st, n, projectId, userId, role),
               nextId |-> n + 1 ]

\* AdminService.assign
assign(st, n, dto) ==
    LET projectId == normStr(dto.projectId)
        userId == normStr(dto.userId)
        role == normStr(dto.role)
        unchanged == [ store |-> st, nextId |-> n ]
    IN  IF projectId = "" \/ userId = "" \/ role = ""
        THEN [ status |-> "BadRequest: projectId, userId, role required" ] @@ unchanged
        ELSE IF projectId \notin DbProjects
        THEN [ status |-> "BadRequest: Invalid projectId" ] @@ unchanged
        ELSE IF userId \notin DbUsers
        THEN [ status |-> "BadRequest: Invalid userId" ] @@ unchanged
        ELSE [ status |-> "ok",
               store |-> projectMemberCreate(st, n, projectId, userId, role),
               nextId |-> n + 1 ]

\* AdminService.listAssignments
listAssignments(st, projectId) ==
    LET pid == normStr(projectId)
    IN  IF pid = ""
        THEN [ status |-> "BadRequest: projectId required", items |-> << >> ]
        ELSE [ status |-> "ok", items |-> projectMemberFindMany(st, pid) ]

\* AdminService.removeAssignment
removeAssignment(st, id) ==
    LET pid == normStr(id)
    IN  IF pid = ""
        THEN [ status |-> "BadRequest: id required", store |-> st ]
        ELSE projectMemberDelete(st, pid)

\* s contains q as a substring
Contains(s, q) ==
    \E i \in 1..(Len(s) + 1) :
        i + Len(q) - 1 <= Len(s) /\ SubSeq(s, i, i + Len(q) - 1) = q

\* rows of the User table (the id stands for the fields that are searched)
UserRows == << [ id |-> "u1" ], [ id |-> "u2" ] >>

\* AdminService.searchUsers: every user when the query is blank, else the
\* users with the query in one of their fields
searchUsers(q) ==
    LET query == normStr(q)
        Hit(u) == query = "" \/ Contains(u.id, query)
    IN  SelectSeq(UserRows, Hit)

-----------------------------------------------------------------------------
(* AdminController.getProjectRoles *)

\* a result that starts with no key at all
AllRolesNull_NoKeys == EmptyMap

\* for (const role of ROLE_CATALOG) assignments[role] = null
AllRolesNull == [ role \in CatalogRoles |-> NULL ]

\* for (const row of items) if (row?.role) assignments[row.role] = row.userId ?? null
RECURSIVE IndexRows(_, _)
IndexRows(assignments, items) ==
    IF items = << >> THEN assignments
    ELSE LET row == Head(items)
         IN  IndexRows(IF Truthy(row.role)
                       THEN Put(assignments, row.role, OrNull(row.userId))
                       ELSE assignments,
                       Tail(items))

getProjectRoles(st, projectId) ==
    LET result == listAssignments(st, projectId)
    IN  IF result.status # "ok"
        THEN [ status |-> result.status, assignments |-> EmptyMap ]
        ELSE [ status |-> "ok",
               assignments |-> IndexRows(AllRolesNull, result.items) ]

-----------------------------------------------------------------------------
(* AdminController.setProjectRoles: what it computes between its awaits *)

\* request bodies: kind says what body.assignments is
\*   "absent"  no body, or a body without an assignments field
\*   "string"  a value whose typeof is not 'object'
\*   "null"    null (typeof null is 'object')
\*   "map"     an object, given by assignments
Body(kind, assignments) == [ kind |-> kind, assignments |-> assignments ]

\* !body || typeof body.assignments !== 'object'
BodyRejected(body) == body.kind \in { "absent", "string" }

\* currentByRole.set(role, { id, userId }) on a Map kept as its entries in
\* insertion order: an existing key keeps its place and takes the new value
RECURSIVE MapSet(_, _, _)
MapSet(entries, role, value) ==
    IF entries = << >> THEN << [ role |-> role, id |-> value.id, userId |-> value.userId ] >>
    ELSE IF Head(entries).role = role
    THEN << [ role |-> role, id |-> value.id, userId |-> value.userId ] >> \o Tail(entries)
    ELSE << Head(entries) >> \o MapSet(Tail(entries), role, value)

MapHas(entries, role) == \E i \in 1..Len(entries) : entries[i].role = role

MapGet(entries, role) ==
    entries[CHOOSE i \in 1..Len(entries) : entries[i].role = role]

\* an index in which the first row seen for a role stays
RECURSIVE currentByRole_FirstWins(_)
currentByRole_FirstWins(items) ==
    IF items = << >> THEN << >>
    ELSE LET row == items[Len(items)]
             before == currentByRole_FirstWins(SubSeq(items, 1, Len(items) - 1))
         IN  IF Truthy(row.role) /\ Truthy(row.id) /\ ~ MapHas(before, row.role)
             THEN MapSet(before, row.role, [ id |-> row.id, userId |-> OrNull(row.userId) ])
             ELSE before

\* for (const row of currentItems) if (row?.role && row?.id) currentByRole.set(...)
RECURSIVE currentByRole(_)
currentByRole(items) ==
    IF items = << >> THEN << >>
    ELSE LET row == items[Len(items)]
             before == currentByRole(SubSeq(items, 1, Len(items) - 1))
         IN  IF Truthy(row.role) /\ Truthy(row.id)
             THEN MapSet(before, row.role, [ id |-> row.id, userId |-> OrNull(row.userId) ])
             ELSE before

\* desired[role] = body.assignments.hasOwnProperty(role) ? body.assignments[role] : null
desired(body) ==
    [ role \in CatalogRoles |->
        IF role \in DOMAIN body.assignments THEN body.assignments[role] ELSE NULL ]

\* desired[role] ?? null, also for a role that is no key of desired
DesiredOrNull(d, role) == IF role \in DOMAIN d THEN OrNull(d[role]) ELSE NULL

RemoveOp(id) == [ op |-> "remove", id |-> id, userId |-> "", role |-> "" ]
AssignOp(userId, role) == [ op |-> "assign", id |-> "", userId |-> userId, role |-> role ]

\* step 2: for (const [role, cur] of currentByRole) if (nextUserId === null) remove
RECURSIVE RemoveLoop(_, _)
RemoveLoop(entries, d) ==
    IF entries = << >> THEN << >>
    ELSE LET cur == Head(entries)
         IN  (IF DesiredOrNull(d, cur.role) = NULL THEN << RemoveOp(cur.id) >> ELSE << >>)
             \o RemoveLoop(Tail(entries), d)

\* step 3 without the `same user` check: assigns whenever a user is desired
UpsertOne_NoSameUserCheck(entries, d, role) ==
    LET nextUserId == DesiredOrNull(d, role)
    IN  IF Truthy(nextUserId) THEN << AssignOp(nextUserId, role) >> ELSE << >>

\* step 3, one role: the two `continue`s, then if (nextUserId) assign
UpsertOne(entries, d, role) ==
    LET nextUserId == DesiredOrNull(d, role)
        curUserId == IF MapHas(entries, role) THEN OrNull(MapGet(entries, role).userId) ELSE NULL
    IN  IF curUserId = NULL /\ nextUserId = NULL THEN << >>
        ELSE IF Truthy(curUserId) /\ Truthy(nextUserId) /\ curUserId = nextUserId THEN << >>
        ELSE IF Truthy(nextUserId) THEN << AssignOp(nextUserId, role) >>
        ELSE << >>

\* step 3: for (const role of ROLE_CATALOG)
RECURSIVE UpsertLoop(_, _, _)
UpsertLoop(entries, d, i) ==
    IF i > Len(ROLE_CATALOG) THEN << >>
    ELSE UpsertOne(entries, d, ROLE_CATALOG[i]) \o UpsertLoop(entries, d, i + 1)

\* the storage calls setProjectRoles awaits, in order, for what it read
Plan(items, body) ==
    LET entries == currentByRole(items)
        d == desired(body)
    IN  RemoveLoop(entries, d) \o UpsertLoop(entries, d, 1)

\* one awaited call of the plan, against the table as it is now
RunOp(st, n, projectId, o) ==
    IF o.op = "remove"
    THEN LET r == removeAssignment(st, o.id)
         IN  [ status |-> r.status, store |-> r.store, nextId |-> n ]
    ELSE assign(st, n, [ projectId |-> projectId, userId |-> o.userId, role |-> o.role ])

-----------------------------------------------------------------------------
(* Requests the model sends *)

Dto(projectId, userId, role) == [ projectId |-> projectId, userId |-> userId, role |-> role ]

Snapshot(pmc, architect, other) ==
    [ k \in { r \in { "PMC", "Architect", "NotARole" } :
                << pmc, architect, other >>[IF r = "PMC" THEN 1 ELSE IF r = "Architect" THEN 2 ELSE 3] # "-" }
        |-> IF k = "PMC" THEN pmc ELSE IF k = "Architect" THEN architect ELSE other ]

\* snapshots over the keys PMC, Architect and NotARole ("-": the key is absent)
SnapshotsOf(pmcs, architects, others) ==
    { Body("map", Snapshot(a, b, c)) : a \in pmcs, b \in architects, c \in others }

\* well-formed requests: every id resolves, every body is a snapshot.
\* 'Legal/Liaisoning' is a role outside the catalog, which spells it 'Legal/Liasoning'.
CoreProjectIds == { "p1" }
CoreDtos ==
    { Dto("p1", "u1", "PMC"), Dto("p1", "u1", "Legal/Liaisoning"), Dto("p2", "u2", "PMC") }
CoreBodies ==
    SnapshotsOf({ "-", NULL, "u1", "u2" }, { "-" }, { "-", "u1" })
        \cup SnapshotsOf({ "u2" }, { "u1" }, { "-" })
        \cup SnapshotsOf({ "-" }, { NULL }, { "-" })
RowIds == { RowId(n) : n \in 1..MaxRows }

\* requests with something wrong: blanks, ids of no project, user or row,
\* bodies that are no snapshot
FaultProjectIds == { "p1", "p9", "  " }
FaultDtos ==
    [ projectId : { "p1", "p9", "  " }, userId : { "u1", "u9", " " },
      role : { "PMC", "NotARole", "" } ]
FaultBodies ==
    SnapshotsOf({ "-", NULL, "u1" }, { "-", "u9" }, { "-" })
        \cup SnapshotsOf({ "-" }, { "-" }, { "u1", "u9" })
        \cup { Body("absent", EmptyMap), Body("string", EmptyMap), Body("null", EmptyMap) }
FaultRowIds == { RowId(1), " " \o RowId(2), "zz", " " }

\* requests of callers that are admins and of callers that are not
AuthProjectIds == { "p1" }
AuthDtos == { Dto("p1", "u1", "PMC"), Dto("p1", "u2", "Architect") }
AuthRowIds == { RowId(1), RowId(2) }
AuthBodies == SnapshotsOf({ NULL, "u2" }, { "-" }, { "-" })
AuthQueries == { "", "2", "x" }

\* overlapping requests on one project
ConcProjectIds == { "p1" }
ConcBodies ==
    SnapshotsOf({ "u2" }, { "-" }, { "-" }) \cup SnapshotsOf({ "u1" }, { "u1" }, { "-" })

-----------------------------------------------------------------------------
(* State *)

Sessions == 1..MaxCalls

Idle ==
    [ phase |-> "idle", projectId |-> "", body |-> Body("absent", EmptyMap),
      todo |-> << >>, pre |-> {}, creates |-> 0, deletes |-> 0,
      reads |-> {}, peers |-> {}, follows |-> Body("absent", EmptyMap) ]

Quiet == \A s \in Sessions : calls[s].phase = "idle"

NoResp ==
    [ op |-> "none", projectId |-> "", userId |-> "", role |-> "", id |-> "",
      body |-> Body("absent", EmptyMap), status |-> "", pre |-> {},
      assignments |-> EmptyMap, items |-> << >>, creates |-> 0, deletes |-> 0,
      reads |-> {}, peers |-> {}, follows |-> Body("absent", EmptyMap) ]

\* callers: what the bearer token of a request says about its sender
Principal(authenticated, isSuperAdmin) ==
    [ authenticated |-> authenticated, isSuperAdmin |-> isSuperAdmin ]
Admin == Principal(TRUE, TRUE)
Member == Principal(TRUE, FALSE)
Anonymous == Principal(FALSE, FALSE)
Callers == { Admin, Member, Anonymous }

\* AuthGuard: the request carries a valid bearer token
AuthGuard(c) == c.authenticated

\* AdminGuard: the authenticated user is a super admin
AdminGuard(c) == c.isSuperAdmin

\* guards that let every authenticated user through
UseGuards_AuthOnly(c) == AuthGuard(c)

\* @UseGuards(AuthGuard, AdminGuard) on the controller class: every handler
\* runs only after both guards have let the request pass, in this order
UseGuards(c) == AuthGuard(c) /\ AdminGuard(c)

-----------------------------------------------------------------------------
(* The browser: routes/App.tsx and views/Login.tsx *)

\* requests of the Login view that may wait for their reply at one time
MaxPending == 2

\* a JWT: its number of dot-separated segments and what its second segment
\* decodes to (parses: base64 and JSON.parse succeed)
Jwt(segments, parses, isSuperAdmin) ==
    [ segments |-> segments, parses |-> parses, isSuperAdmin |-> isSuperAdmin ]
NoToken == Jwt(0, FALSE, FALSE)

\* const [, b64] = token.split('.'); if (!b64) return null; try JSON.parse(atob(..)) catch null
NoPayload == [ isNull |-> TRUE, isSuperAdmin |-> FALSE ]
decodeJwtPayload(token) ==
    IF token.segments < 2 THEN NoPayload
    ELSE IF ~ token.parses THEN NoPayload
    ELSE [ isNull |-> FALSE, isSuperAdmin |-> token.isSuperAdmin ]

\* a user object of a verify response
User(isSuperAdmin) == [ isSuperAdmin |-> isSuperAdmin ]
NoUser == [ isNull |-> TRUE, isSuperAdmin |-> FALSE ]

\* JSON.stringify(data.user)
JSONstringify(user) ==
    IF user.isSuperAdmin THEN "{\"isSuperAdmin\":true}" ELSE "{\"isSuperAdmin\":false}"

\* JSON.parse(localStorage.getItem('user') || 'null')
JSONparse(text) ==
    IF text = "{\"isSuperAdmin\":true}" THEN [ isNull |-> FALSE, isSuperAdmin |-> TRUE ]
    ELSE IF text = "{\"isSuperAdmin\":false}" THEN [ isNull |-> FALSE, isSuperAdmin |-> FALSE ]
    ELSE NoUser

\* localStorage without the keys 'token' and 'user' (getItem gives null)
EmptyStorage == [ token |-> NoToken, user |-> "" ]

\* Private: if (!token) return <Navigate to="/login" />
HasToken(ls) == ls.token # NoToken

\* AdminOnly: !!(payload && payload.isSuperAdmin) || !!user?.isSuperAdmin
isAdmin(ls) ==
    LET user == JSONparse(IF ls.user = "" THEN "null" ELSE ls.user)
        payload == IF HasToken(ls) THEN decodeJwtPayload(ls.token) ELSE NoPayload
    IN  (~ payload.isNull /\ payload.isSuperAdmin) \/ (~ user.isNull /\ user.isSuperAdmin)

\* routes in which /admin is behind Private only
Render_NoAdminOnly(path, ls) ==
    IF path = "/login" THEN [ page |-> "Login", to |-> "" ]
    ELSE IF path \in { "/landing", "/projects", "/projects/:id", "/admin" }
    THEN IF ~ HasToken(ls) THEN [ page |-> "", to |-> "/login" ]
         ELSE [ page |-> IF path = "/landing" THEN "Landing"
                         ELSE IF path = "/projects" THEN "MyProjects"
                         ELSE IF path = "/admin" THEN "AdminHome" ELSE "ProjectDetails",
                to |-> "" ]
    ELSE [ page |-> "", to |-> "/login" ]

\* <Routes>: the page a path renders, or the path it redirects to
Render(path, ls) ==
    IF path = "/login" THEN [ page |-> "Login", to |-> "" ]
    ELSE IF path \in { "/landing", "/projects", "/projects/:id" }
    THEN IF ~ HasToken(ls) THEN [ page |-> "", to |-> "/login" ]
         ELSE [ page |-> IF path = "/landing" THEN "Landing"
                         ELSE IF path = "/projects" THEN "MyProjects" ELSE "ProjectDetails",
                to |-> "" ]
    ELSE IF path = "/admin"
    THEN IF ~ HasToken(ls) THEN [ page |-> "", to |-> "/login" ]
         ELSE IF ~ isAdmin(ls) THEN [ page |-> "", to |-> "/landing" ]
         ELSE [ page |-> "AdminHome", to |-> "" ]
    ELSE [ page |-> "", to |-> "/login" ]

\* the path the router ends at, every <Navigate> followed
RECURSIVE Resolve(_, _)
Resolve(path, ls) ==
    LET r == Render(path, ls)
    IN  IF r.to = "" THEN path ELSE Resolve(r.to, ls)

\* the page that is on screen
Page == Render(location, localStorage).page

\* useState initial values of Login
InitialView ==
    [ step |-> "enter", login |-> "", code |-> "", err |-> NULL, busy |-> FALSE,
      granted |-> FALSE ]

NoEvent ==
    [ event |-> "none", path |-> "", ok |-> FALSE, stale |-> FALSE, isSuperAdmin |-> FALSE,
      storageBefore |-> EmptyStorage, locationBefore |-> "/login" ]

Init ==
    /\ store = {}
    /\ nextId = 1
    /\ calls = [ s \in Sessions |-> Idle ]
    /\ resp = NoResp
    /\ caller = Admin
    /\ view = InitialView
    /\ pending = {}
    /\ localStorage = EmptyStorage
    /\ location = "/login"
    /\ last = NoEvent

\* the snapshot of the request that completed just before, when that was a
\* successful setProjectRoles of the same project
Follows(projectId) ==
    IF resp.op = "setProjectRoles" /\ resp.status = "ok"
       /\ normStr(resp.projectId) = normStr(projectId)
    THEN resp.body
    ELSE Body("absent", EmptyMap)

\* rows of one project
RowsOf(st, pid) == { r \in st : r.projectId = pid }

\* a read of project pid is seen by every setProjectRoles in flight on it
Observed(pid, rows) ==
    [ s \in Sessions |->
        IF calls[s].phase = "running" /\ normStr(calls[s].projectId) = pid
        THEN [ calls[s] EXCEPT !.reads = @ \cup { rows } ]
        ELSE calls[s] ]

-----------------------------------------------------------------------------
(* Requests that are one step *)

\* a read that repairs what it finds: of the rows that share a role of the
\* project it keeps the newest and deletes the others
GetProjectRoles_Repair(alone, projectId) ==
    /\ alone => Quiet
    /\ LET r == getProjectRoles(store, projectId)
           pid == normStr(projectId)
       IN  /\ resp' = [ NoResp EXCEPT !.op = "getProjectRoles", !.projectId = projectId,
                                      !.status = r.status, !.pre = store,
                                      !.assignments = r.assignments,
                                      !.follows = Follows(projectId) ]
           /\ calls' = IF r.status = "ok" THEN Observed(pid, RowsOf(store, pid)) ELSE calls
           /\ store' = { x \in store :
                           ~ \E y \in store : /\ y.projectId = pid /\ x.projectId = pid
                                              /\ y.role = x.role /\ y.createdAt > x.createdAt }
    /\ UNCHANGED nextId

\* GET /admin/projects/:id/roles
GetProjectRoles(alone, projectId) ==
    /\ alone => Quiet
    /\ LET r == getProjectRoles(store, projectId)
           pid == normStr(projectId)
       IN  /\ resp' = [ NoResp EXCEPT !.op = "getProjectRoles", !.projectId = projectId,
                                      !.status = r.status, !.pre = store,
                                      !.assignments = r.assignments,
                                      !.follows = Follows(projectId) ]
           /\ calls' = IF r.status = "ok" THEN Observed(pid, RowsOf(store, pid)) ELSE calls
    /\ UNCHANGED << store, nextId >>

\* GET /admin/assignments?projectId=
ListAssignments(alone, projectId) ==
    /\ alone => Quiet
    /\ LET r == listAssignments(store, projectId)
           pid == normStr(projectId)
       IN  /\ resp' = [ NoResp EXCEPT !.op = "listAssignments", !.projectId = projectId,
                                      !.status = r.status, !.pre = store,
                                      !.items = r.items ]
           /\ calls' = IF r.status = "ok" THEN Observed(pid, RowsOf(store, pid)) ELSE calls
    /\ UNCHANGED << store, nextId >>

\* POST /admin/assignments
Assign(alone, dto) ==
    /\ alone => Quiet
    /\ LET r == assign(store, nextId, dto)
       IN  /\ r.status = "ok" => nextId <= MaxRows     \* the bound on rows
           /\ store' = r.store
           /\ nextId' = r.nextId
           /\ resp' = [ NoResp EXCEPT !.op = "assign", !.projectId = dto.projectId,
                                      !.userId = dto.userId, !.role = dto.role,
                                      !.status = r.status, !.pre = store,
                                      !.creates = IF r.status = "ok" THEN 1 ELSE 0 ]
    /\ UNCHANGED calls

\* DELETE /admin/assignments?id=
RemoveAssignment(alone, id) ==
    /\ alone => Quiet
    /\ LET r == removeAssignment(store, id)
       IN  /\ store' = r.store
           /\ resp' = [ NoResp EXCEPT !.op = "removeAssignment", !.id = id,
                                      !.status = r.status, !.pre = store,
                                      !.deletes = IF r.status = "ok" THEN 1 ELSE 0 ]
    /\ UNCHANGED << nextId, calls >>

\* GET /admin/users?q=
SearchUsers(alone, q) ==
    /\ alone => Quiet
    /\ resp' = [ NoResp EXCEPT !.op = "searchUsers", !.id = q, !.status = "ok",
                               !.pre = store, !.items = searchUsers(q) ]
    /\ UNCHANGED << store, nextId, calls >>

\* a request the guards turn away: no handler runs
Denied(c, op) ==
    /\ Quiet
    /\ resp' = [ NoResp EXCEPT !.op = op, !.pre = store,
                               !.status = IF AuthGuard(c) THEN "Forbidden" ELSE "Unauthorized" ]
    /\ UNCHANGED << store, nextId, calls >>

\* a request of caller c for handler op: the guards first, then the handler
Request(c, op, Handler) ==
    /\ caller' = c
    /\ IF UseGuards(c) THEN Handler ELSE Denied(c, op)
    /\ UNCHANGED frontend

-----------------------------------------------------------------------------
(* POST /admin/projects/:id/assign-roles *)

\* the response of the request in c, ending with status
SetRolesResp(c, status) ==
    [ NoResp EXCEPT !.op = "setProjectRoles", !.projectId = c.projectId,
                    !.body = c.body, !.status = status, !.pre = c.pre,
                    !.creates = c.creates, !.deletes = c.deletes,
                    !.reads = c.reads, !.peers = c.peers, !.follows = c.follows ]

\* a request that ends tells the requests still in flight on the same project
Finish(s, c, status) ==
    /\ resp' = SetRolesResp(c, status)
    /\ calls' = [ t \in Sessions |->
                    IF t = s THEN Idle
                    ELSE IF calls[t].phase = "running"
                            /\ normStr(calls[t].projectId) = normStr(c.projectId)
                    THEN [ calls[t] EXCEPT !.peers = @ \cup { [ body |-> c.body, status |-> status ] } ]
                    ELSE calls[t] ]

CountAssigns(todo) == Cardinality({ i \in 1..Len(todo) : todo[i].op = "assign" })

\* the body check, the listAssignments read and everything up to the first
\* awaited removeAssignment / assign
SetRolesBegin(alone, s, projectId, body) ==
    /\ alone => Quiet
    /\ calls[s].phase = "idle"
    \* which free session a request takes makes no difference: the lowest
    /\ \A t \in Sessions : t < s => calls[t].phase # "idle"
    /\ LET c == [ Idle EXCEPT !.phase = "running", !.projectId = projectId,
                              !.body = body, !.pre = store,
                              !.follows = Follows(projectId) ]
           cur == listAssignments(store, projectId)
           todo == Plan(cur.items, body)
       IN  IF BodyRejected(body)
           THEN Finish(s, c, "BadRequest: assignments object is required")
           ELSE IF cur.status # "ok"
           THEN Finish(s, c, cur.status)
           ELSE IF body.kind = "null"
           THEN Finish(s, c, "TypeError")
           ELSE IF todo = << >>
           THEN Finish(s, c, "ok")
           ELSE /\ nextId + CountAssigns(todo) <= MaxRows + 1     \* the bound on rows
                /\ calls' = [ calls EXCEPT ![s] = [ c EXCEPT !.todo = todo ] ]
                /\ resp' = NoResp
    /\ UNCHANGED << store, nextId >>

\* the next awaited removeAssignment / assign; a rejection ends the request
SetRolesStep(s) ==
    /\ calls[s].phase = "running"
    /\ LET c == calls[s]
           o == Head(c.todo)
           r == RunOp(store, nextId, c.projectId, o)
           d == [ c EXCEPT !.todo = Tail(@),
                           !.creates = IF o.op = "assign" /\ r.status = "ok" THEN @ + 1 ELSE @,
                           !.deletes = IF o.op = "remove" /\ r.status = "ok" THEN @ + 1 ELSE @ ]
       IN  /\ (o.op = "assign" /\ r.status = "ok") => nextId <= MaxRows     \* the bound on rows
           /\ store' = r.store
           /\ nextId' = r.nextId
           /\ IF r.status # "ok" THEN Finish(s, d, r.status)
              ELSE IF d.todo = << >> THEN Finish(s, d, "ok")
              ELSE /\ calls' = [ calls EXCEPT ![s] = d ]
                   /\ UNCHANGED resp

-----------------------------------------------------------------------------
(* Specifications *)

\* well-formed requests, one after the other
Next ==
    \/ \E projectId \in CoreProjectIds :
          Request(Admin, "getProjectRoles", GetProjectRoles(TRUE, projectId))
    \/ \E projectId \in CoreProjectIds :
          Request(Admin, "listAssignments", ListAssignments(TRUE, projectId))
    \/ \E dto \in CoreDtos : Request(Admin, "assign", Assign(TRUE, dto))
    \/ \E id \in RowIds : Request(Admin, "removeAssignment", RemoveAssignment(TRUE, id))
    \/ \E projectId \in CoreProjectIds, body \in CoreBodies :
          Request(Admin, "setProjectRoles", SetRolesBegin(TRUE, 1, projectId, body))
    \/ SetRolesStep(1) /\ UNCHANGED << caller, frontend >>

Spec == Init /\ [][Next]_vars

\* requests with something wrong, one after the other
NextFault ==
    \/ \E projectId \in FaultProjectIds :
          Request(Admin, "getProjectRoles", GetProjectRoles(TRUE, projectId))
    \/ \E dto \in FaultDtos : Request(Admin, "assign", Assign(TRUE, dto))
    \/ \E id \in FaultRowIds : Request(Admin, "removeAssignment", RemoveAssignment(TRUE, id))
    \/ \E projectId \in FaultProjectIds, body \in FaultBodies :
          Request(Admin, "setProjectRoles", SetRolesBegin(TRUE, 1, projectId, body))
    \/ SetRolesStep(1) /\ UNCHANGED << caller, frontend >>

SpecFault == Init /\ [][NextFault]_vars

\* setProjectRoles requests that overlap each other and reads
NextConc ==
    \/ \E projectId \in ConcProjectIds :
          ~Quiet /\ Request(Admin, "getProjectRoles", GetProjectRoles(FALSE, projectId))
    \/ \E s \in Sessions, projectId \in ConcProjectIds, body \in ConcBodies :
          Request(Admin, "setProjectRoles", SetRolesBegin(FALSE, s, projectId, body))
    \/ \E s \in Sessions : SetRolesStep(s) /\ UNCHANGED << caller, frontend >>

SpecConc == Init /\ [][NextConc]_vars

\* requests of every kind of caller, one after the other
NextAuth ==
    \/ \E c \in Callers, projectId \in AuthProjectIds :
          Request(c, "getProjectRoles", GetProjectRoles(TRUE, projectId))
    \/ \E c \in Callers, projectId \in AuthProjectIds :
          Request(c, "listAssignments", ListAssignments(TRUE, projectId))
    \/ \E c \in Callers, dto \in AuthDtos : Request(c, "assign", Assign(TRUE, dto))
    \/ \E c \in Callers, id \in AuthRowIds :
          Request(c, "removeAssignment", RemoveAssignment(TRUE, id))
    \/ \E c \in Callers, projectId \in AuthProjectIds, body \in AuthBodies :
          Request(c, "setProjectRoles", SetRolesBegin(TRUE, 1, projectId, body))
    \/ \E c \in Callers, q \in AuthQueries : Request(c, "searchUsers", SearchUsers(TRUE, q))
    \/ SetRolesStep(1) /\ UNCHANGED << caller, frontend >>

SpecAuth == Init /\ [][NextAuth]_vars

-----------------------------------------------------------------------------
(* The Login view and the router *)

Event(event, path, ok, stale, isSuperAdmin) ==
    [ event |-> event, path |-> path, ok |-> ok, stale |-> stale,
      isSuperAdmin |-> isSuperAdmin,
      storageBefore |-> localStorage, locationBefore |-> location ]

\* a request of the Login view, with the login and code its closure holds
OtpRequest(login) == [ kind |-> "otpRequest", login |-> login, code |-> "", stale |-> FALSE ]
OtpVerify(login, code) == [ kind |-> "otpVerify", login |-> login, code |-> code, stale |-> FALSE ]

\* the Login view that sent a request has been unmounted: its setters do nothing
Unmounted(requests) == { [ r EXCEPT !.stale = TRUE ] : r \in requests }

\* what the user types, and what the backend answers
Logins == { "  ", "a" }
Codes == { "12", "000000" }
Paths == { "/login", "/landing", "/projects", "/admin", "/nowhere" }
Reply(thrown, ok, error, token, user) ==
    [ thrown |-> thrown, ok |-> ok, error |-> error, token |-> token, user |-> user ]
OtpReplies ==
    { Reply(FALSE, TRUE, "", NoToken, User(FALSE)),
      Reply(TRUE, FALSE, "User does not exist", NoToken, User(FALSE)),
      Reply(TRUE, FALSE, "", NoToken, User(FALSE)) }
VerifyReplies ==
    { Reply(TRUE, FALSE, "OTP expired", NoToken, User(FALSE)),
      Reply(TRUE, FALSE, "", NoToken, User(FALSE)),
      Reply(FALSE, FALSE, "", NoToken, User(FALSE)),
      Reply(FALSE, TRUE, "", Jwt(3, TRUE, TRUE), User(TRUE)),
      Reply(FALSE, TRUE, "", Jwt(3, TRUE, FALSE), User(FALSE)),
      Reply(FALSE, TRUE, "", Jwt(3, TRUE, TRUE), User(FALSE)),
      Reply(FALSE, TRUE, "", Jwt(1, FALSE, FALSE), User(TRUE)),
      Reply(FALSE, TRUE, "", Jwt(3, FALSE, FALSE), User(FALSE)) }

\* the router goes to target with storage ls; a Login view that is left is
\* unmounted, and v is the state of the Login view if it stays
GoTo(target, ls, v, requests) ==
    /\ location' = Resolve(target, ls)
    /\ IF location = "/login" /\ Resolve(target, ls) # "/login"
       THEN view' = InitialView /\ pending' = Unmounted(requests)
       ELSE view' = v /\ pending' = requests

\* the user opens a path (address bar, link)
Navigate(path) ==
    /\ GoTo(path, localStorage, view, pending)
    /\ last' = Event("navigate", path, TRUE, FALSE, FALSE)
    /\ UNCHANGED localStorage

\* onChange of the login input (rendered in step 'enter')
SetLogin(v) ==
    /\ location = "/login" /\ view.step = "enter"
    /\ view' = [ view EXCEPT !.login = v ]
    /\ last' = Event("setLogin", "", TRUE, FALSE, FALSE)
    /\ UNCHANGED << pending, localStorage, location >>

\* onChange of the code input (rendered in step 'otp')
SetCode(v) ==
    /\ location = "/login" /\ view.step = "otp"
    /\ view' = [ view EXCEPT !.code = v ]
    /\ last' = Event("setCode", "", TRUE, FALSE, FALSE)
    /\ UNCHANGED << pending, localStorage, location >>

\* sendOtp without the check of the login
SendOtp_NoBlankCheck ==
    /\ location = "/login" /\ view.step = "enter"
    /\ Cardinality(pending \cup { OtpRequest(view.login) }) <= MaxPending
    /\ view' = [ view EXCEPT !.err = NULL, !.busy = TRUE ]
    /\ pending' = pending \cup { OtpRequest(view.login) }
    /\ last' = Event("sendOtp", "", TRUE, FALSE, FALSE)
    /\ UNCHANGED << localStorage, location >>

\* sendOtp up to its await (button "Send OTP", or Enter in the login input)
SendOtp ==
    /\ location = "/login" /\ view.step = "enter"
    /\ IF Trim(view.login) = ""
       THEN /\ view' = [ view EXCEPT !.err = "Enter email or phone" ]
            /\ UNCHANGED pending
       ELSE /\ Cardinality(pending \cup { OtpRequest(view.login) }) <= MaxPending
            /\ view' = [ view EXCEPT !.err = NULL, !.busy = TRUE ]
            /\ pending' = pending \cup { OtpRequest(view.login) }
    /\ last' = Event("sendOtp", "", Trim(view.login) # "", FALSE, FALSE)
    /\ UNCHANGED << localStorage, location >>

\* sendOtp after its await: setStep('otp'), or catch setErr; finally setBusy(false)
OtpReply(req, reply) ==
    /\ req \in pending /\ req.kind = "otpRequest"
    /\ pending' = pending \ { req }
    /\ view' = IF req.stale THEN view
               ELSE IF ~ reply.thrown
               THEN [ view EXCEPT !.step = "otp", !.busy = FALSE,
                                  !.granted = @ \/ Trim(req.login) # "" ]
               ELSE [ view EXCEPT !.busy = FALSE,
                                  !.err = IF Truthy(reply.error) THEN reply.error
                                          ELSE "Failed to request OTP" ]
    /\ last' = Event("otpReply", "", ~ reply.thrown, req.stale, FALSE)
    /\ UNCHANGED << localStorage, location >>

\* verify up to its await (button "Verify", or Enter in the code input with
\* six characters or more)
Verify ==
    /\ location = "/login" /\ view.step = "otp"
    /\ Len(Trim(view.code)) >= 6
    /\ Cardinality(pending \cup { OtpVerify(view.login, view.code) }) <= MaxPending
    /\ view' = [ view EXCEPT !.err = NULL, !.busy = TRUE ]
    /\ pending' = pending \cup { OtpVerify(view.login, view.code) }
    /\ last' = Event("verify", "", TRUE, FALSE, FALSE)
    /\ UNCHANGED << localStorage, location >>

\* verify after its await
VerifyReply(req, reply) ==
    /\ req \in pending /\ req.kind = "otpVerify"
    /\ IF ~ reply.thrown /\ reply.ok
       THEN LET ls == [ token |-> reply.token, user |-> JSONstringify(reply.user) ]
                target == IF reply.user.isSuperAdmin THEN "/admin" ELSE "/landing"
            IN  /\ localStorage' = ls
                /\ GoTo(target, ls, IF req.stale THEN view ELSE [ view EXCEPT !.busy = FALSE ],
                        pending \ { req })
       ELSE /\ pending' = pending \ { req }
            /\ view' = IF req.stale THEN view
                       ELSE [ view EXCEPT !.busy = FALSE,
                                 !.err = IF Truthy(reply.error) THEN reply.error
                                         ELSE IF reply.thrown THEN "Failed to verify OTP"
                                         ELSE "Invalid OTP" ]
            /\ UNCHANGED << localStorage, location >>
    /\ last' = Event("verifyReply", "", ~ reply.thrown /\ reply.ok, req.stale,
                     reply.user.isSuperAdmin)

\* button "Back": setStep('enter')
Back ==
    /\ location = "/login" /\ view.step = "otp"
    /\ view' = [ view EXCEPT !.step = "enter" ]
    /\ last' = Event("back", "", TRUE, FALSE, FALSE)
    /\ UNCHANGED << pending, localStorage, location >>

NextUi ==
    \/ \E path \in Paths : Navigate(path) /\ UNCHANGED backend
    \/ \E v \in Logins : SetLogin(v) /\ UNCHANGED backend
    \/ \E v \in Codes : SetCode(v) /\ UNCHANGED backend
    \/ SendOtp /\ UNCHANGED backend
    \/ \E req \in pending, reply \in OtpReplies : OtpReply(req, reply) /\ UNCHANGED backend
    \/ Verify /\ UNCHANGED backend
    \/ \E req \in pending, reply \in VerifyReplies : VerifyReply(req, reply) /\ UNCHANGED backend
    \/ Back /\ UNCHANGED backend

SpecUi == Init /\ [][NextUi]_vars

-----------------------------------------------------------------------------
(* Properties *)

\* rows of project pid with role
Slot(st, pid, role) == { r \in st : r.projectId = pid /\ r.role = role }

\* the value a snapshot asks for a role: its entry, null when it has none
Wanted(body, role) ==
    IF role \in DOMAIN body.assignments THEN body.assignments[role] ELSE NULL

IsBadRequest(status) == Len(status) >= 10 /\ SubSeq(status, 1, 10) = "BadRequest"

SetRolesDone == Quiet /\ resp.op = "setProjectRoles"

\* C1 (uniqueness, I1): between requests, no project has two rows for one role.
C1_Uniqueness ==
    Quiet => \A r1 \in store, r2 \in store :
                (r1.projectId = r2.projectId /\ r1.role = r2.role) => r1 = r2

\* C2 (completeness, I2): the keys of what getProjectRoles returns are exactly
\* the catalog roles, whatever the table holds.
C2_Completeness ==
    (resp.op = "getProjectRoles" /\ resp.status = "ok")
        => DOMAIN resp.assignments = CatalogRoles

\* C3 (round trip): getProjectRoles right after a successful setProjectRoles of
\* the same project returns, for every catalog role, the snapshot's value for
\* the role, and null for a role the snapshot has no key for.
C3_RoundTrip ==
    (resp.op = "getProjectRoles" /\ resp.status = "ok" /\ resp.follows.kind = "map")
        => \A role \in CatalogRoles :
              /\ role \in DOMAIN resp.assignments
              /\ resp.assignments[role] = Wanted(resp.follows, role)

\* C4 (idempotence): a setProjectRoles that repeats the successful
\* setProjectRoles just before it (same project, same snapshot) creates
\* nothing, deletes nothing and leaves the table as it was.
C4_Idempotence ==
    (SetRolesDone /\ resp.follows.kind = "map" /\ resp.follows = resp.body)
        => /\ resp.creates = 0
           /\ resp.deletes = 0
           /\ store = resp.pre

\* C5 (replacement): when exactly one row held the role, for user u1, and the
\* snapshot names another user u2, then after a successful setProjectRoles
\* exactly one row holds the role, it is for u2, and the row for u1 is gone.
C5_Replacement ==
    SetRolesDone /\ resp.status = "ok"
        => \A role \in CatalogRoles :
              LET pid == normStr(resp.projectId)
                  before == Slot(resp.pre, pid, role)
                  next == Wanted(resp.body, role)
              IN  (Cardinality(before) = 1 /\ Truthy(next)
                   /\ \A r \in before : r.userId # next)
                    => /\ Cardinality(Slot(store, pid, role)) = 1
                       /\ \A r \in Slot(store, pid, role) : r.userId = next
                       /\ before \cap store = {}

\* C6 (atomicity): a setProjectRoles that fails leaves the rows of its project
\* exactly as they were when it started.
C6_Atomicity ==
    SetRolesDone /\ resp.status # "ok"
        => RowsOf(store, normStr(resp.projectId)) = RowsOf(resp.pre, normStr(resp.projectId))

\* C7 (reader isolation): every read of the project made while a
\* setProjectRoles ran (alone, to completion) saw the rows from before the
\* request or the rows after it.
C7_ReaderIsolation ==
    SetRolesDone /\ resp.status = "ok" /\ resp.peers = {}
        => \A seen \in resp.reads :
              \/ seen = RowsOf(resp.pre, normStr(resp.projectId))
              \/ seen = RowsOf(store, normStr(resp.projectId))

\* the rows of pid are the snapshot's: one row per role it names, for the user it names
HoldsSnapshot(st, pid, body) ==
    \A role \in CatalogRoles :
        /\ Cardinality(Slot(st, pid, role)) <= 1
        /\ { r.userId : r \in Slot(st, pid, role) }
              = (IF Truthy(Wanted(body, role)) THEN { Wanted(body, role) } ELSE {})

\* C8 (concurrent setProjectRoles): when two overlapping requests on one project
\* both succeed, the project ends holding the one snapshot or the other, in full.
C8_OneOfTwoWins ==
    SetRolesDone /\ resp.status = "ok"
        => \A peer \in resp.peers :
              (Cardinality(resp.peers) = 1 /\ peer.status = "ok")
                => \/ HoldsSnapshot(store, normStr(resp.projectId), resp.body)
                   \/ HoldsSnapshot(store, normStr(resp.projectId), peer.body)

\* C9 (assign validation): assign with a blank projectId, userId or role, or
\* with a role outside the catalog, ends in a BadRequest and creates no row.
C9_AssignValidation ==
    (resp.op = "assign"
       /\ (\/ normStr(resp.projectId) = ""
           \/ normStr(resp.userId) = ""
           \/ normStr(resp.role) = ""
           \/ normStr(resp.role) \notin CatalogRoles))
        => IsBadRequest(resp.status) /\ store = resp.pre

\* C10 (foreign keys): assign with a projectId of no project or a userId of no
\* user ends in an error and leaves the table as it was.
C10_ForeignKeyRejection ==
    (resp.op = "assign"
       /\ (normStr(resp.projectId) \notin DbProjects \/ normStr(resp.userId) \notin DbUsers))
        => resp.status # "ok" /\ store = resp.pre

\* an assign for a user that does not exist was rejected with rows in the table
C10_Witness ==
    /\ resp.op = "assign"
    /\ normStr(resp.projectId) \in DbProjects
    /\ normStr(resp.userId) = "u9"
    /\ resp.role = "PMC"
    /\ resp.status = "BadRequest: Invalid userId"
    /\ store # {}
    /\ store = resp.pre

\* C11 (assign is replace-safe): after a successful assign exactly one row holds
\* the role of the project, and it is for the user of the request.
C11_AssignReplaceSafe ==
    (resp.op = "assign" /\ resp.status = "ok")
        => LET rows == Slot(store, normStr(resp.projectId), normStr(resp.role))
           IN  /\ Cardinality(rows) = 1
               /\ \A r \in rows : r.userId = normStr(resp.userId)

\* C12 (removeAssignment errors): an id that no row has makes removeAssignment
\* fail with the record-not-found error, never "ok", and a blank id makes it
\* fail with a BadRequest; in both cases the table stays as it was.
C12_RemoveErrors ==
    resp.op = "removeAssignment"
        => LET id == normStr(resp.id)
           IN  /\ id = "" => (IsBadRequest(resp.status) /\ store = resp.pre)
               /\ (id # "" /\ ~ \E r \in resp.pre : r.id = id)
                      => (resp.status = "RecordNotFound" /\ store = resp.pre)

\* a removeAssignment of an id that no row of a non-empty table has, and that
\* was rejected
C12_Witness ==
    /\ resp.op = "removeAssignment"
    /\ normStr(resp.id) # ""
    /\ resp.pre # {}
    /\ ~ \E r \in resp.pre : r.id = normStr(resp.id)
    /\ resp.status = "RecordNotFound"

\* C13 (unassign): when a row held a role of the project and the snapshot gives
\* null for the role, then after a successful setProjectRoles no row holds the
\* role, and the getProjectRoles that follows returns null for it.
C13_Unassign ==
    /\ (SetRolesDone /\ resp.status = "ok")
          => \A role \in CatalogRoles :
                LET pid == normStr(resp.projectId)
                IN  (Slot(resp.pre, pid, role) # {} /\ role \in DOMAIN resp.body.assignments
                     /\ resp.body.assignments[role] = NULL)
                        => Slot(store, pid, role) = {}
    /\ (resp.op = "getProjectRoles" /\ resp.status = "ok" /\ resp.follows.kind = "map")
          => \A role \in CatalogRoles :
                (role \in DOMAIN resp.follows.assignments
                 /\ resp.follows.assignments[role] = NULL)
                    => (role \in DOMAIN resp.assignments /\ resp.assignments[role] = NULL)

\* C14 (unknown-role tolerance): a key of the snapshot that is no catalog role
\* does not make setProjectRoles fail, no row is created for it, and the key is
\* not among the keys the following getProjectRoles returns.
C14_UnknownRoleTolerance ==
    /\ (SetRolesDone /\ resp.body.kind = "map")
          => \A key \in DOMAIN resp.body.assignments \ CatalogRoles :
                /\ ~ \E r \in store \ resp.pre : r.role = key
                /\ ( /\ normStr(resp.projectId) \in DbProjects
                     /\ \A role \in DOMAIN resp.body.assignments \cap CatalogRoles :
                           resp.body.assignments[role] \in DbUsers \cup { NULL } )
                       => resp.status = "ok"
    /\ (resp.op = "getProjectRoles" /\ resp.status = "ok" /\ resp.follows.kind = "map")
          => \A key \in DOMAIN resp.follows.assignments \ CatalogRoles :
                key \notin DOMAIN resp.assignments

\* C15 (getProjectRoles only reads): the table after a getProjectRoles is the
\* table before it, whatever it holds and whatever the request returned.
C15_GetIsReadOnly ==
    resp.op = "getProjectRoles" => store = resp.pre

\* a getProjectRoles answered from a table in which two rows share a role of
\* the project
C15_Witness ==
    /\ resp.op = "getProjectRoles"
    /\ resp.status = "ok"
    /\ \E r1 \in store, r2 \in store :
          /\ r1 # r2 /\ r1.role = r2.role
          /\ r1.projectId = r2.projectId /\ r1.projectId = normStr(resp.projectId)

\* C16 (authorization gate): a request of a caller that is no admin is turned
\* away before its handler runs: it starts no setProjectRoles, creates and
\* deletes no row, and nothing read from the table is returned to it.
C16_AuthorizationGate ==
    ~ (caller.authenticated /\ caller.isSuperAdmin)
        => /\ Quiet
           /\ resp.op # "none"
           /\ resp.status \in { "Unauthorized", "Forbidden" }
           /\ store = resp.pre
           /\ resp.creates = 0 /\ resp.deletes = 0
           /\ resp.items = << >> /\ resp.assignments = EmptyMap

\* a signed-in caller that is no admin asked for a change of a table that
\* holds rows, and was turned away
C16_Witness ==
    /\ caller = Member
    /\ resp.op \in { "setProjectRoles", "assign", "removeAssignment" }
    /\ resp.status = "Forbidden"
    /\ store # {}

\* C17 as stated (getProjectRoles never fails): for every projectId the request
\* succeeds and every catalog role without a row is returned as null.
C17_GetNeverFails ==
    resp.op = "getProjectRoles"
        => /\ resp.status = "ok"
           /\ \A role \in CatalogRoles :
                 Slot(store, normStr(resp.projectId), role) = {}
                     => (role \in DOMAIN resp.assignments /\ resp.assignments[role] = NULL)

\* C17 amended (getProjectRoles never fails on missing data): for every
\* projectId that is not blank, also of a project without rows and of no
\* project at all, the request succeeds and every catalog role without a row
\* is returned as null.
C17_GetNeverFailsOnMissingData ==
    (resp.op = "getProjectRoles" /\ normStr(resp.projectId) # "")
        => /\ resp.status = "ok"
           /\ \A role \in CatalogRoles :
                 Slot(store, normStr(resp.projectId), role) = {}
                     => (role \in DOMAIN resp.assignments /\ resp.assignments[role] = NULL)

\* a getProjectRoles of an id that is no project's, answered while other
\* projects have rows
C17_Witness ==
    /\ resp.op = "getProjectRoles"
    /\ normStr(resp.projectId) \notin DbProjects
    /\ normStr(resp.projectId) # ""
    /\ resp.status = "ok"
    /\ store # {}
    /\ \A role \in CatalogRoles : resp.assignments[role] = NULL

\* C18 (duplicate tolerance on read): when more than one row holds a role of
\* the project, getProjectRoles returns for the role the user of the row that
\* was created last, and leaves the table as it was.
C18_NewestRowWins ==
    (resp.op = "getProjectRoles" /\ resp.status = "ok")
        => /\ store = resp.pre
           /\ \A role \in CatalogRoles :
                 LET rows == Slot(resp.pre, normStr(resp.projectId), role)
                 IN  Cardinality(rows) > 1
                         => \E newest \in rows :
                               /\ \A r \in rows : r.createdAt <= newest.createdAt
                               /\ role \in DOMAIN resp.assignments
                               /\ resp.assignments[role] = newest.userId

\* C19 (delete before create): whenever a setProjectRoles in flight is about
\* to create a row for a role, no row that held the role of the project when
\* the request loaded the table is still there.
C19_DeleteBeforeCreate ==
    \A s \in Sessions :
        (calls[s].phase = "running" /\ calls[s].todo # << >>
         /\ Head(calls[s].todo).op = "assign")
            => Slot(store, normStr(calls[s].projectId), Head(calls[s].todo).role)
                  \cap calls[s].pre = {}

\* C20 (missing keys mean unassign): after a successful setProjectRoles no row
\* holds a catalog role of the project that the snapshot has no key for.
C20_MissingKeysUnassign ==
    (SetRolesDone /\ resp.status = "ok")
        => \A role \in CatalogRoles \ DOMAIN resp.body.assignments :
              Slot(store, normStr(resp.projectId), role) = {}

\* C21 (minimal mutations): a setProjectRoles neither deletes nor creates a row
\* for a catalog role whose current user, as read from the table the request
\* loaded, is the desired one (both null, or the same user): the rows of the
\* role, ids included, are afterwards what they were.
C21_MinimalMutations ==
    (SetRolesDone /\ resp.body.kind = "map")
        => LET pid == normStr(resp.projectId)
               current == getProjectRoles(resp.pre, resp.projectId)
           IN  \A role \in CatalogRoles :
                  (current.status = "ok" /\ current.assignments[role] = Wanted(resp.body, role))
                      => Slot(store, pid, role) = Slot(resp.pre, pid, role)

\* a setProjectRoles that kept the row of one role, whose user was the desired
\* one, and created a row for another role
C21_Witness ==
    /\ SetRolesDone /\ resp.status = "ok" /\ resp.creates = 1 /\ resp.deletes = 0
    /\ \E kept \in resp.pre :
          /\ kept.projectId = normStr(resp.projectId)
          /\ kept.role \in DOMAIN resp.body.assignments
          /\ resp.body.assignments[kept.role] = kept.userId
          /\ Slot(resp.pre, kept.projectId, kept.role) = { kept }
          /\ kept \in store

\* C22 (malformed snapshot body): a setProjectRoles whose body is absent or
\* whose assignments field is no mapping (absent, null, or no object) fails
\* with a BadRequest and neither deletes nor creates a row.
C22_MalformedBody ==
    (SetRolesDone /\ resp.body.kind # "map")
        => /\ IsBadRequest(resp.status)
           /\ resp.creates = 0 /\ resp.deletes = 0
           /\ store = resp.pre

\* the user setProjectRoles takes as the current one of a role, from the rows
\* it loads for projectId out of table st
CurrentUserForSet(st, projectId, role) ==
    LET entries == currentByRole(listAssignments(st, projectId).items)
    IN  IF MapHas(entries, role) THEN OrNull(MapGet(entries, role).userId) ELSE NULL

\* C23 (same index for read and write): in every table the model reaches, for
\* every project and every catalog role, the user setProjectRoles takes as the
\* current one is the user getProjectRoles returns for the role.
C23_SameIndex ==
    \A projectId \in DbProjects, role \in CatalogRoles :
        CurrentUserForSet(store, projectId, role)
            = getProjectRoles(store, projectId).assignments[role]

\* a getProjectRoles answered from a table in which two rows with different
\* users hold one catalog role of the project
C23_Witness ==
    /\ resp.op = "getProjectRoles" /\ resp.status = "ok"
    /\ \E r1 \in store, r2 \in store :
          /\ r1.projectId = normStr(resp.projectId) /\ r2.projectId = r1.projectId
          /\ r1.role = r2.role /\ r1.role \in CatalogRoles
          /\ r1.userId # r2.userId

C25_RouteGating ==
    LET payload == decodeJwtPayload(localStorage.token)
        user == JSONparse(localStorage.user)
        flag == (~ payload.isNull /\ payload.isSuperAdmin) \/ (~ user.isNull /\ user.isSuperAdmin)
    IN  /\ (Page = "AdminHome" \/ location = "/admin")
              => (localStorage.token # NoToken /\ flag)
        /\ localStorage.token = NoToken => location = "/login"
        /\ (last.event = "navigate" /\ last.path = "/admin"
            /\ localStorage.token # NoToken /\ ~ flag)
              => location = "/landing"

\* /admin was opened with a token whose payload has the flag while the stored
\* user has not, and AdminHome is on screen
C25_Witness ==
    /\ last.event = "navigate" /\ last.path = "/admin"
    /\ Page = "AdminHome"
    /\ ~ JSONparse(localStorage.user).isSuperAdmin

\* C26 (setProjectRoles touches only catalog roles): the rows of the project
\* whose role is outside the catalog are after a setProjectRoles the rows that
\* were there before it.
C26_OnlyCatalogRoles ==
    SetRolesDone
        => LET pid == normStr(resp.projectId)
           IN  { r \in store : r.projectId = pid /\ r.role \notin CatalogRoles }
                 = { r \in resp.pre : r.projectId = pid /\ r.role \notin CatalogRoles }

\* C27 (setProjectRoles repairs duplicates): whatever the table held before,
\* after a successful setProjectRoles every catalog role of the project has at
\* most one row, and none when the snapshot's value for it is null.
C27_RepairsDuplicates ==
    (SetRolesDone /\ resp.status = "ok")
        => \A role \in CatalogRoles :
              LET rows == Slot(store, normStr(resp.projectId), role)
              IN  /\ Cardinality(rows) <= 1
                  /\ Wanted(resp.body, role) = NULL => rows = {}

\* C28 (project isolation): setProjectRoles, assign and getProjectRoles of one
\* project leave the rows of every other project as they were, and what
\* getProjectRoles returns is what it returns from the rows of its project
\* alone.
C28_ProjectIsolation ==
    ((SetRolesDone \/ resp.op \in { "assign", "getProjectRoles" }) /\ resp.op # "none")
        => LET pid == normStr(resp.projectId)
           IN  /\ \A r \in (store \ resp.pre) \cup (resp.pre \ store) : r.projectId = pid
               /\ resp.op = "getProjectRoles"
                     => resp.assignments
                          = getProjectRoles(RowsOf(resp.pre, pid), resp.projectId).assignments

\* a setProjectRoles of p1 that deleted or created rows while another project
\* had rows
C28_Witness ==
    /\ SetRolesDone /\ resp.status = "ok"
    /\ normStr(resp.projectId) = "p1"
    /\ resp.deletes > 0
    /\ \E r \in resp.pre : r.projectId # "p1" /\ r.role = "PMC"

\* C29 (removeAssignment frame): a successful removeAssignment removes the one
\* row with the id it was given and leaves every other row as it was; and no
\* request of any kind changes a field of a row that stays: a row with an id
\* is after the request the row that had the id before it.
C29_RemoveFrame ==
    /\ (resp.op = "removeAssignment" /\ resp.status = "ok")
          => /\ \E row \in resp.pre : row.id = normStr(resp.id) /\ store = resp.pre \ { row }
             /\ Cardinality(store) = Cardinality(resp.pre) - 1
    /\ (Quiet /\ resp.op # "none")
          => \A r \in store, q \in resp.pre : r.id = q.id => r = q

\* a removeAssignment that removed one of two rows of a slot while another
\* project had a row too
C29_Witness ==
    /\ resp.op = "removeAssignment" /\ resp.status = "ok"
    /\ \E gone \in resp.pre \ store :
          /\ \E twin \in store : twin.projectId = gone.projectId /\ twin.role = gone.role
          /\ \E other \in store : other.projectId # gone.projectId

\* C30 (one catalog everywhere): the catalog is a non-empty sequence without
\* duplicates; every role the single-pick assignment page can submit is in it;
\* so every row created with a role of that page is returned by
\* getProjectRoles under a catalog key.
C30_OneCatalog ==
    /\ Len(ROLE_CATALOG) > 0
    /\ \A i \in 1..Len(ROLE_CATALOG), j \in 1..Len(ROLE_CATALOG) :
          ROLE_CATALOG[i] = ROLE_CATALOG[j] => i = j
    /\ (resp.op = "assign" /\ resp.status = "ok"
        /\ \E i \in 1..Len(ROLES) : ROLES[i] = resp.role)
          => resp.role \in CatalogRoles
    /\ (resp.op = "getProjectRoles" /\ resp.status = "ok")
          => \A r \in RowsOf(resp.pre, normStr(resp.projectId)) :
                (\E i \in 1..Len(ROLES) : ROLES[i] = r.role)
                    => (r.role \in CatalogRoles /\ r.role \in DOMAIN resp.assignments)

====
